---- MODULE Spec2Model ----
(***************************************************************************)
(* FIR field extraction (backend/app/services/extraction_service.py), the  *)
(* sample repository and pattern refinement                                *)
(* (backend/app/services/training_service.py) and the upload route         *)
(* (backend/app/routes/upload.py).                                         *)
(*                                                                         *)
(* Text is a sequence of characters; a character is a string: an ASCII     *)
(* character is the one-character string, any other code point is named    *)
(* "U+XXXX".  A Python value is tagged with its type, so that an operation *)
(* applied to a value of the wrong type raises, as it does in Python.  An  *)
(* operation that may raise returns [raised, value].                       *)
(***************************************************************************)
EXTENDS Integers, Sequences, FiniteSets, TLC

VARIABLES
    training_dir,    \* the files of training_data/: file name -> file
    enginePatterns,  \* upload.py's extraction_service.patterns
    resp,            \* the last call and what it returned
    saved,           \* history: file_id -> the sample of its last save that
                     \* returned True
    faults,          \* the I/O failures so far
    writer           \* the save_training_sample or retrain_model call that
                     \* is between the open and the close of its file, if any

vars == <<training_dir, enginePatterns, resp, saved, faults, writer>>

(***************************************************************************)
(* Characters and strings                                                  *)
(***************************************************************************)
Str(s) == [i \in 1..Len(s) |-> SubSeq(s, i, i)]

UpperCase == Str("ABCDEFGHIJKLMNOPQRSTUVWXYZ")
LowerCase == Str("abcdefghijklmnopqrstuvwxyz")
DigitChars == Str("0123456789")

Range(f) == {f[i] : i \in DOMAIN f}

Min(S) == CHOOSE x \in S : \A y \in S : x <= y

\* the k-th smallest element of a set of numbers
NthOf(S, k) == CHOOSE p \in S : Cardinality({q \in S : q <= p}) = k

\* Devanagari letters (category Lo) used by the labels of the source, and
\* U+00E9 (e acute, category Ll): str.isalnum() is true of them.
UnicodeLetters ==
    {"U+0905", "U+0906", "U+0909", "U+0915", "U+0916", "U+0917", "U+091C",
     "U+0924", "U+0925", "U+0928", "U+092A", "U+092C", "U+092D", "U+092E",
     "U+0930", "U+0932", "U+0935", "U+090F", "U+092F", "U+0938", "U+0939",
     "U+00E9"}

\* Devanagari dependent vowel signs, anusvara and virama (categories Mc and
\* Mn): str.isalnum() is false of them, so Python's \w does not match them.
UnicodeMarks ==
    {"U+0902", "U+093E", "U+093F", "U+0940", "U+0947", "U+094B", "U+094C",
     "U+094D"}

\* \s
IsSpace(c) == c \in {" ", "\t", "\n"}

\* \d
IsDigit(c) == c \in Range(DigitChars)

\* \w
IsWord(c) ==
    \/ c \in Range(UpperCase) \cup Range(LowerCase) \cup Range(DigitChars)
    \/ c = "_"
    \/ c \in UnicodeLetters

DigitValue(c) == (CHOOSE i \in 1..10 : DigitChars[i] = c) - 1

\* int(s) of a run of ASCII digits
RECURSIVE ParseInt(_)
ParseInt(s) ==
    IF s = <<>> THEN 0
    ELSE 10 * ParseInt(SubSeq(s, 1, Len(s) - 1)) + DigitValue(s[Len(s)])

\* str(n) of a natural number
RECURSIVE FormatInt(_)
FormatInt(n) ==
    IF n < 10 THEN <<DigitChars[n + 1]>>
    ELSE FormatInt(n \div 10) \o <<DigitChars[(n % 10) + 1]>>

\* case folding under re.IGNORECASE
Lower(c) ==
    IF c \in Range(UpperCase)
    THEN LowerCase[CHOOSE i \in 1..26 : UpperCase[i] = c]
    ELSE c

\* s[p:] starts with w; with ci, case-insensitively
MatchLit(t, p, w, ci) ==
    /\ p >= 1
    /\ p + Len(w) - 1 <= Len(t)
    /\ \A i \in 1..Len(w) :
          IF ci THEN Lower(t[p + i - 1]) = Lower(w[i]) ELSE t[p + i - 1] = w[i]

\* `sub in text`
Contains(t, w) == \E p \in 1..Len(t) : MatchLit(t, p, w, FALSE)

\* first index at or after p that holds no whitespace (Len(t) + 1 at the end)
SkipSpaces(t, p) ==
    Min({q \in p..(Len(t) + 1) :
            /\ \A i \in p..(q - 1) : IsSpace(t[i])
            /\ (q = Len(t) + 1 \/ ~IsSpace(t[q]))})

\* str.strip()
Strip(t) ==
    LET keep == {i \in 1..Len(t) : ~IsSpace(t[i])}
    IN  IF keep = {} THEN <<>>
        ELSE SubSeq(t, Min(keep), CHOOSE i \in keep : \A j \in keep : j <= i)

\* str.replace(old, new): every non-overlapping occurrence, left to right
RECURSIVE ReplaceFrom(_, _, _, _)
ReplaceFrom(t, p, old, new) ==
    LET hit == {q \in p..Len(t) : MatchLit(t, q, old, FALSE)}
    IN  IF hit = {} THEN SubSeq(t, p, Len(t))
        ELSE SubSeq(t, p, Min(hit) - 1) \o new
             \o ReplaceFrom(t, Min(hit) + Len(old), old, new)

Replace(t, old, new) == ReplaceFrom(t, 1, old, new)

\* re.sub(r'[^\w\s.,:/()-]', '', text)
AllowedPunct == Str(".,:/()-")

StripNoise(t) ==
    SelectSeq(t, LAMBDA c : IsWord(c) \/ IsSpace(c) \/ c \in Range(AllowedPunct))

\* re.sub(r'[^\w\s]', '', text)
StripPunct(t) == SelectSeq(t, LAMBDA c : IsWord(c) \/ IsSpace(c))

\* re.sub(r'\s+', ' ', text): of every run of whitespace the first
\* character is kept, as a space
CollapseSpaces(t) ==
    LET keep == {i \in 1..Len(t) :
                    ~IsSpace(t[i]) \/ i = 1 \/ ~IsSpace(t[i - 1])}
    IN  [k \in 1..Cardinality(keep) |->
            IF IsSpace(t[NthOf(keep, k)]) THEN " " ELSE t[NthOf(keep, k)]]

\* ' '.join(parts)
RECURSIVE Join(_)
Join(parts) ==
    IF parts = <<>> THEN <<>>
    ELSE IF Len(parts) = 1 THEN parts[1]
         ELSE parts[1] \o <<" ">> \o Join(Tail(parts))

(***************************************************************************)
(* Python values                                                           *)
(***************************************************************************)
PyStr(s) == [type |-> "str", v |-> s]
PyFloat(n) == [type |-> "float", v |-> n]
PyNone == [type |-> "NoneType", v |-> 0]
PyList(l) == [type |-> "list", v |-> l]

\* LET v == e IN F(v), with `e` written once: TLC's coverage walks an
\* argument once and a LET definition once for every use of its name.
With(v, F(_)) == F(v)

Ok(v) == [raised |-> FALSE, value |-> v]
Raise(e) == [raised |-> TRUE, value |-> e]

\* d = other where d.update(other) is meant: the keys of d that other
\* lacks are gone.
Assigned(d, other) == other

\* dict.update(other): the keys of `other` overwrite or extend `d`
Update(d, other) ==
    [k \in DOMAIN d \cup DOMAIN other |->
        IF k \in DOMAIN other THEN other[k] ELSE d[k]]

EmptyDict == [k \in {} |-> 0]

(***************************************************************************)
(* FIRExtractionService._clean_ocr_text                                    *)
(***************************************************************************)
\* The correction table, in the insertion order of the dict literal (a key
\* written twice keeps its first position and its last value).
corrections ==
    <<
       <<Str("Fste@"), Str("District")>>,
       <<Str("((aRT"), Str("Police Station")>>,
       <<Str("Sot)"), Str("Station")>>,
       <<Str("staTst"), Str("Station")>>,
       <<Str("AeT@oat"), Str("Monday")>>,
       <<Str("2X"), Str("2 hours")>>,
       <<Str("STfeT"), Str("Street")>>,
       <<Str("3fex)"), Str("Street")>>,
       <<Str("TTA,"), Str("Street")>>,
       <<Str("1 Tee aA."), Str("1 km approx")>>,
       <<Str("{81"), Str("House No")>>,
       <<Str("Stel"), Str("Street")>>,
       <<Str("HAN,"), Str("Hanuman")>>,
       <<Str("caleit"), Str("Colony")>>,
       <<Str("Stec,,"), Str("Street")>>,
       <<Str("VoSITENs,,"), Str("Vishnu Nagar")>>,
       <<Str("ailurst,"), Str("Ailur")>>,
       <<Str("SMT"), Str("Street")>>,
       <<Str("Orel"), Str("Shri")>>,
       <<Str("galetaR"), Str("Gautam")>>,
       <<Str("6971"), Str("1997")>>,
       <<Str("ASAT"), Str("Street")>>,
       <<Str("dash)"), Str("District")>>,
       <<<<"A", "r", "i", "U+00E9", "d", "t">>, Str("Address")>>,
       <<Str("fAreatearan)"), Str("Father/Husband")>>,
       <<Str("Saal"), Str("Shri")>>,
       <<Str("Fel"), Str("Shri")>>,
       <<Str("SAeaa,"), Str("Shri")>>,
       <<Str("Welk"), Str("Shri")>>,
       <<Str("sear"), Str("Shri")>>,
       <<Str("ara)"), Str("Name")>>,
       <<Str("feat:"), Str("Date")>>,
       <<Str("3itet"), Str("Street")>>,
       <<Str("create:"), Str("District")>>,
       <<Str("Rear"), Str("Present")>>,
       <<Str("Ze."), Str("No.")>>,
       <<Str("det"), Str("Present")>>,
       <<Str("PATTON"), Str("Present")>>,
       <<Str("feet"), Str("Address")>>,
       <<Str("Pwr"), Str("Present")>>,
       <<Str("faerard"), Str("Address")>>,
       <<Str("HR"), Str("House")>>,
       <<Str("Aelaeael"), Str("Address")>>,
       <<Str("Tat"), Str("Street")>>,
       <<Str("TAT"), Str("Street")>>,
       <<Str("caret"), Str("Street")>>,
       <<Str("attests"), Str("Address")>>,
       <<Str("Yael"), Str("Street")>>,
       <<Str("3a"), Str("No")>>,
       <<Str("ed"), Str("No")>>,
       <<Str("3teTstscla"), Str("Address")>>,
       <<Str("let"), Str("No")>>,
       <<Str("USAT"), Str("Present")>>,
       <<Str("WEN"), Str("Address")>>,
       <<Str("seer"), Str("Shri")>>,
       <<Str("HAT"), Str("Street")>>,
       <<Str("att"), Str("Street")>>,
       <<Str("Hace"), Str("House")>>,
       <<Str("FeV"), Str("No")>>,
       <<Str("Als"), Str("No")>>,
       <<Str("cared"), Str("Street")>>,
       <<Str("Taweg"), Str("Street")>>,
       <<Str("SN.UeT.UE.HoAA"), Str("S.No.")>>,
       <<Str("IL"), Str("Shri")>>,
       <<Str("SOTA"), Str("Shri")>>,
       <<Str("THA"), Str("Street")>>,
       <<Str("Mee"), Str("Street")>>,
       <<Str("SA"), Str("Street")>>,
       <<Str("GOR"), Str("Street")>>,
       <<Str("Use"), Str("No")>>,
       <<Str("TAR"), Str("Street")>>,
       <<Str("ah"), Str("No")>>,
       <<Str("fate"), Str("Street")>>,
       <<Str("act"), Str("No")>>,
       <<Str("fe,"), Str("No")>>,
       <<Str("Ure"), Str("Present")>>,
       <<Str("AT"), Str("No")>>,
       <<Str("Udit"), Str("Shri")>>,
       <<Str("Tale"), Str("Shri")>>,
       <<Str("aired"), Str("Shri")>>,
       <<Str("ale"), Str("Shri")>>,
       <<Str("Aaell"), Str("Shri")>>,
       <<Str("asa)"), Str("Name")>>,
       <<Str("He"), Str("No")>>
    >>

\* for ocr_error, correction in corrections.items():
\*     text = text.replace(ocr_error, correction)
\* The entries lo..hi applied in order.
RECURSIVE ApplyRange(_, _, _)
ApplyRange(text, lo, hi) ==
    IF lo = hi THEN Replace(text, corrections[lo][1], corrections[lo][2])
    ELSE With((lo + hi) \div 2, LAMBDA mid :
         With(ApplyRange(text, lo, mid), LAMBDA first :
             IF Len(first) >= 0 THEN ApplyRange(first, mid + 1, hi)
             ELSE first))

ApplyCorrections(text) == ApplyRange(text, 1, Len(corrections))

\* The cleaning of one text that passed the length test: noise characters
\* removed, corrections applied, whitespace collapsed and trimmed.
CleanText(text) ==
    Strip(CollapseSpaces(ApplyCorrections(StripNoise(text))))

\* item.get('confidence', 0), item.get('bbox', [])
GetConfidence(item) ==
    IF "confidence" \in DOMAIN item THEN item.confidence ELSE PyFloat(0)

GetBBox(item) ==
    IF "bbox" \in DOMAIN item THEN item.bbox ELSE PyList(<<>>)

\* The loop body without `if len(text) < 2: continue`.
CleanItemAnyLength(item) ==
    IF "text" \notin DOMAIN item THEN Raise("KeyError")
    ELSE IF item.text.type # "str" THEN Raise("AttributeError")
    ELSE With(CleanText(Strip(item.text.v)), LAMBDA cleaned :
             IF cleaned # <<>>
             THEN Ok(<<[text |-> PyStr(cleaned),
                        confidence |-> GetConfidence(item),
                        bbox |-> GetBBox(item)]>>)
             ELSE Ok(<<>>))

\* One pass of the loop body: the fragments it appends (none or one), or
\* the exception of item['text'] / .strip().
CleanItem(item) ==
    IF "text" \notin DOMAIN item THEN Raise("KeyError")
    ELSE IF item.text.type # "str" THEN Raise("AttributeError")
    ELSE With(Strip(item.text.v), LAMBDA text :
             IF Len(text) < 2 THEN Ok(<<>>)
             ELSE With(CleanText(text), LAMBDA cleaned :
                      IF cleaned # <<>>
                      THEN Ok(<<[text |-> PyStr(cleaned),
                                 confidence |-> GetConfidence(item),
                                 bbox |-> GetBBox(item)]>>)
                      ELSE Ok(<<>>)))

\* The loop with cleaned_data.insert(0, ...) for cleaned_data.append(...).
RECURSIVE CleanFromPrepending(_, _)
CleanFromPrepending(ocr_data, k) ==
    IF k > Len(ocr_data) THEN Ok(<<>>)
    ELSE With(CleanItem(ocr_data[k]), LAMBDA head :
             IF head.raised THEN head
             ELSE With(CleanFromPrepending(ocr_data, k + 1), LAMBDA rest :
                      IF rest.raised THEN rest
                      ELSE Ok(rest.value \o head.value)))

RECURSIVE CleanFrom(_, _)
CleanFrom(ocr_data, k) ==
    IF k > Len(ocr_data) THEN Ok(<<>>)
    ELSE With(CleanItem(ocr_data[k]), LAMBDA head :
             IF head.raised THEN head
             ELSE With(CleanFrom(ocr_data, k + 1), LAMBDA rest :
                      IF rest.raised THEN rest
                      ELSE Ok(head.value \o rest.value)))

_clean_ocr_text(ocr_data) == CleanFrom(ocr_data, 1)

(***************************************************************************)
(* Regular-expression matching, as the patterns of the routines use it     *)
(***************************************************************************)
\* A label is a sequence of words joined by \s*; the position after the
\* label matched at p, or 0.
RECURSIVE MatchWordsEnd(_, _, _, _)
MatchWordsEnd(t, p, ws, ci) ==
    IF ~MatchLit(t, p, ws[1], ci) THEN 0
    ELSE IF Len(ws) = 1 THEN p + Len(ws[1])
         ELSE MatchWordsEnd(t, SkipSpaces(t, p + Len(ws[1])), Tail(ws), ci)

\* (?:a|b|...) at p: the end of the first alternative that matches, or 0
AltEnd(t, p, alts, ci) ==
    With({i \in 1..Len(alts) : MatchWordsEnd(t, p, alts[i], ci) # 0},
         LAMBDA hit : IF hit = {} THEN 0
                      ELSE MatchWordsEnd(t, p, alts[Min(hit)], ci))

\* leftmost position at or after `from` where an alternative matches, or 0
FindAlt(t, from, alts, ci) ==
    With({p \in from..Len(t) : AltEnd(t, p, alts, ci) # 0},
         LAMBDA hit : IF hit = {} THEN 0 ELSE Min(hit))

\* label1.*?label2.*? ... from `from`: the position after the last label
\* (`from` for an empty chain), or 0
RECURSIVE ChainEnd(_, _, _, _)
ChainEnd(t, from, chain, ci) ==
    IF chain = <<>> THEN from
    ELSE With(FindAlt(t, from, chain[1], ci), LAMBDA p :
             IF p = 0 THEN 0
             ELSE ChainEnd(t, AltEnd(t, p, chain[1], ci), Tail(chain), ci))

NoMatch == [found |-> FALSE, group |-> <<>>, end |-> 0]

\* The end of the stop (?:\s*a|\s*b|\s*$) (skip) or (?:a|b|$) at e, or 0
StopEnd(t, e, stops, skip, ci) ==
    With(IF skip THEN SkipSpaces(t, e) ELSE e, LAMBDA q :
    With(AltEnd(t, q, stops, ci), LAMBDA stop :
        IF stop # 0 THEN stop
        ELSE IF q = Len(t) + 1 THEN q
        ELSE 0))

\* re.search(r'chain.*?:(.*?)(?:stops|$)') from position `from`: the
\* non-greedy group between the first colon after the labels and the first
\* place where a stop matches
SpanFrom(t, from, chain, stops, skip, ci) ==
    With(ChainEnd(t, from, chain, ci), LAMBDA l :
    With(IF l = 0 THEN {} ELSE {c \in l..Len(t) : t[c] = ":"}, LAMBDA colons :
        IF colons = {} THEN NoMatch
        ELSE With(Min(colons), LAMBDA c :
             With([x \in (c + 1)..(Len(t) + 1) |->
                      StopEnd(t, x, stops, skip, ci)], LAMBDA ends :
             With(Min({x \in DOMAIN ends : ends[x] # 0}), LAMBDA e :
                 [found |-> TRUE,
                  group |-> SubSeq(t, c + 1, e - 1),
                  end |-> ends[e]])))))

Span(t, chain, stops, ci) == SpanFrom(t, 1, chain, stops, TRUE, ci)

\* \d{n} at p
DigitsAt(t, p, n) ==
    /\ p >= 1
    /\ p + n - 1 <= Len(t)
    /\ \A i \in p..(p + n - 1) : IsDigit(t[i])

\* The last n digits after the labels where the first are meant.
DigitsAfterLast(t, chain, n, ci) ==
    With(ChainEnd(t, 1, chain, ci), LAMBDA l :
    With(IF l = 0 THEN {} ELSE {p \in l..Len(t) : DigitsAt(t, p, n)},
         LAMBDA hit :
        IF hit = {} THEN NoMatch
        ELSE With(NthOf(hit, Cardinality(hit)), LAMBDA last :
                 [found |-> TRUE,
                  group |-> SubSeq(t, last, last + n - 1),
                  end |-> last + n])))

\* re.search(r'chain.*?(\d{n})'): the first n digits after the labels
DigitsAfter(t, chain, n, ci) ==
    With(ChainEnd(t, 1, chain, ci), LAMBDA l :
    With(IF l = 0 THEN {} ELSE {p \in l..Len(t) : DigitsAt(t, p, n)},
         LAMBDA hit :
        IF hit = {} THEN NoMatch
        ELSE [found |-> TRUE,
              group |-> SubSeq(t, Min(hit), Min(hit) + n - 1),
              end |-> Min(hit) + n]))

\* \d{2}/\d{2}/\d{4} at p (10 characters), \d{2}:\d{2} at p (5 characters)
DateAt(t, p) ==
    /\ DigitsAt(t, p, 2) /\ MatchLit(t, p + 2, <<"/">>, FALSE)
    /\ DigitsAt(t, p + 3, 2) /\ MatchLit(t, p + 5, <<"/">>, FALSE)
    /\ DigitsAt(t, p + 6, 4)

TimeAt(t, p) ==
    /\ DigitsAt(t, p, 2) /\ MatchLit(t, p + 2, <<":">>, FALSE)
    /\ DigitsAt(t, p + 3, 2)

\* re.findall of a fixed-width pattern: the non-overlapping matches, left
\* to right
RECURSIVE FindAllDates(_, _)
FindAllDates(t, from) ==
    With({p \in from..Len(t) : DateAt(t, p)}, LAMBDA hit :
        IF hit = {} THEN <<>>
        ELSE <<SubSeq(t, Min(hit), Min(hit) + 9)>>
             \o FindAllDates(t, Min(hit) + 10))

RECURSIVE FindAllTimes(_, _)
FindAllTimes(t, from) ==
    With({p \in from..Len(t) : TimeAt(t, p)}, LAMBDA hit :
        IF hit = {} THEN <<>>
        ELSE <<SubSeq(t, Min(hit), Min(hit) + 4)>>
             \o FindAllTimes(t, Min(hit) + 5))

\* the end (exclusive) of the run of digits that starts at p
DigitRunEnd(t, p) ==
    Min({q \in p..(Len(t) + 1) :
            /\ \A i \in p..(q - 1) : IsDigit(t[i])
            /\ (q = Len(t) + 1 \/ ~IsDigit(t[q]))})

(***************************************************************************)
(* Literals of the source that are not ASCII                               *)
(***************************************************************************)
ActBNS ==
    <<"U+092D", "U+093E", "U+0930", "U+0924", "U+0940", "U+092F", " ",
      "U+0928", "U+094D", "U+092F", "U+093E", "U+092F", " ", "U+0938",
      "U+0902", "U+0939", "U+093F", "U+0924", "U+093E", " ", "(", "U+092C",
      "U+0940", " ", "U+090F", "U+0928", " ", "U+090F", "U+0938", ")", ",",
      " ", "2", "0", "2", "3">>

Bharat == <<"U+092D", "U+093E", "U+0930", "U+0924">>

HiAccused == <<"U+0906", "U+0930", "U+094B", "U+092A", "U+0940">>

HiName == <<"U+0928", "U+093E", "U+0935">>

HiAlias == <<"U+0909", "U+092A", "U+0928", "U+093E", "U+0935">>

HiWritten == <<"U+0932", "U+093F", "U+0916", "U+093F", "U+0924">>

HiOral == <<"U+092E", "U+094C", "U+0916", "U+093F", "U+0915">>

HiPratham == <<"U+092A", "U+094D", "U+0930", "U+0925", "U+092E">>

HiKhabar == <<"U+0916", "U+092C", "U+0930">>

HiAntargat ==
    <<"U+0905", "U+0902", "U+0924", "U+0930", "U+094D", "U+0917", "U+0924">>

HiJila == <<"U+091C", "U+093F", "U+0932", "U+093E">>

HiThane == <<"U+0925", "U+093E", "U+0928", "U+0947">>

\* a one-word label, and a list of one-word labels
W(s) == <<Str(s)>>

(***************************************************************************)
(* The field-group routines of FIRExtractionService                        *)
(***************************************************************************)
\* a dict with the one key k when cond holds, the empty dict otherwise
Entry(k, cond, v) == IF cond THEN (k :> v) ELSE EmptyDict

\* len(s) > lo and len(s) < hi
LenBetween(s, lo, hi) == Len(s) > lo /\ Len(s) < hi

\* value = match.group(1).strip(); if lo < len(value) < hi: d[k] = value
\* -- the entry written, none without a match or outside the lengths.
StrippedEntry(k, match, lo, hi) ==
    With(Strip(match.group), LAMBDA value :
        Entry(k, match.found /\ LenBetween(value, lo, hi), value))

\* The same for a dict built with every key: the value of the key, ''
\* without a match or outside the lengths.
StrippedOr(match, lo, hi) ==
    With(Strip(match.group), LAMBDA value :
        IF match.found /\ LenBetween(value, lo, hi) THEN value ELSE <<>>)

\* value = re.sub(r'[^\w\s]', '', match.group(1).strip()).strip()
CleanedEntry(k, match, lo, hi) ==
    With(Strip(StripPunct(Strip(match.group))), LAMBDA value :
        Entry(k, match.found /\ LenBetween(value, lo, hi), value))

\* year = int(match.group(1)); if lo <= year <= hi: d[k] = shown(year)
YearEntry(k, match, lo, hi, asText) ==
    With(ParseInt(match.group), LAMBDA year :
        Entry(k, match.found /\ lo <= year /\ year <= hi,
              IF asText THEN FormatInt(year) ELSE year))

\* d[k] = match.group(1) on a match
GroupEntry(k, match) == Entry(k, match.found, match.group)

_extract_fir_info(ocr_data, full_text) ==
    GroupEntry("FIRNo", DigitsAfter(full_text, <<<<W("FIR")>>>>, 4, TRUE))
    @@ With({p \in 1..Len(full_text) :
                /\ DateAt(full_text, p)
                /\ TimeAt(full_text, SkipSpaces(full_text, p + 10))},
            LAMBDA dates :
           IF dates = {} THEN EmptyDict
           ELSE With(Min(dates), LAMBDA date_p :
                With(SkipSpaces(full_text, date_p + 10), LAMBDA time_p :
                    "DateTimeOfFIR" :>
                        (SubSeq(full_text, date_p, date_p + 9) \o <<" ">>
                         \o SubSeq(full_text, time_p, time_p + 4)))))
    @@ CleanedEntry("District",
           Span(full_text, <<<<W("District")>>>>,
                <<W("Police"), W("Station"), W("Year")>>, TRUE), 2, 50)
    @@ CleanedEntry("PoliceStation",
           Span(full_text, <<<<W("P.S."), <<Str("Police Station")>>>>>>,
                <<W("Year")>>, TRUE), 2, 50)
    @@ YearEntry("Year", DigitsAfter(full_text, <<>>, 4, FALSE),
                 2000, 2030, FALSE)
    @@ (IF Contains(full_text, HiWritten)
           \/ Contains(full_text, Str("Written"))
        THEN ("TypeOfInformation" :> HiWritten)
        ELSE IF Contains(full_text, HiOral)
                \/ Contains(full_text, Str("Oral"))
             THEN ("TypeOfInformation" :> HiOral)
             ELSE EmptyDict)

ComplainantDefault ==
    [Name |-> <<>>, FatherOrHusbandName |-> <<>>, DOB_YearOfBirth |-> <<>>,
     Nationality |-> Bharat, UIDNo |-> <<>>, PassportNo |-> <<>>,
     IDDetails |-> <<>>, Occupation |-> <<>>, Addresses |-> <<>>,
     PhoneNumber |-> <<>>]

_extract_complainant(ocr_data, full_text) ==
    Update(ComplainantDefault,
        StrippedEntry("Name",
            Span(full_text, <<<<W("Name")>>>>,
                 <<W("Father"), W("DOB"), W("Date")>>, TRUE), 2, 100)
        @@ StrippedEntry("FatherOrHusbandName",
               Span(full_text, <<<<W("Father"), W("Husband")>>, <<W("Name")>>>>,
                    <<W("DOB"), W("Date")>>, TRUE), 2, 100)
        @@ YearEntry("DOB_YearOfBirth",
               DigitsAfter(full_text, <<<<W("DOB"), W("Birth")>>>>, 4, TRUE),
               1900, 2010, TRUE)
        @@ GroupEntry("PhoneNumber", DigitsAfter(full_text, <<>>, 10, FALSE))
        @@ GroupEntry("UIDNo", DigitsAfter(full_text, <<>>, 12, FALSE))
        @@ With(Span(full_text, <<<<W("Address")>>>>,
                     <<W("Phone"), W("Mobile")>>, TRUE), LAMBDA address_match :
           With(Strip(address_match.group), LAMBDA address :
               Entry("Addresses",
                     address_match.found /\ LenBetween(address, 5, 200),
                     <<[Type |-> Str("Present Address"),
                        Address |-> address]>>))))

NewAccused(name) ==
    [Name |-> name, Alias |-> <<>>, RelativeName |-> <<>>,
     PresentAddress |-> <<>>]

\* The first definition of _extract_accused in the class body: the
\* fragment scan.  The second definition below rebinds the name, so no
\* call reaches this one.
RECURSIVE AccusedScan(_, _, _, _)
AccusedScan(ocr_data, k, current, list) ==
    \* current: <<>> for None, <<accused>> for an open block
    IF k > Len(ocr_data)
    THEN IF current # <<>> /\ current[1].Name # <<>>
         THEN list \o current ELSE list
    ELSE LET text == ocr_data[k].text.v
         IN  IF Contains(text, Str("Accused")) \/ Contains(text, HiAccused)
             THEN AccusedScan(ocr_data, k + 1, <<NewAccused(<<>>)>>,
                              list \o current)
             ELSE IF current # <<>>
                  THEN IF Contains(text, Str("Name")) \/ Contains(text, HiName)
                       THEN AccusedScan(ocr_data, k + 1, current, list)
                       ELSE IF Len(text) > 3 /\ current[1].Name = <<>>
                            THEN AccusedScan(ocr_data, k + 1,
                                             <<NewAccused(text)>>, list)
                            ELSE AccusedScan(ocr_data, k + 1, current, list)
                  ELSE AccusedScan(ocr_data, k + 1, current, list)

_extract_accused_first(ocr_data) == AccusedScan(ocr_data, 1, <<>>, <<>>)

\* re.findall(r'(?:Accused|...).*?(?:Name|...).*?:(.*?)(?:Alias|...|$)')
RECURSIVE AccusedMatches(_, _)
AccusedMatches(t, from) ==
    With(SpanFrom(t, from,
                  <<<<W("Accused"), <<HiAccused>>>>,
                    <<W("Name"), <<HiName>>>>>>,
                  <<W("Alias"), <<HiAlias>>>>, FALSE, TRUE), LAMBDA m :
        IF from > Len(t) \/ ~m.found THEN <<>>
        ELSE <<m.group>> \o AccusedMatches(t, m.end))

\* The second definition of _extract_accused: the one the class keeps.
_extract_accused(ocr_data) ==
    With(Join([i \in 1..Len(ocr_data) |-> ocr_data[i].text.v]),
         LAMBDA full_text :
    With(SelectSeq(AccusedMatches(full_text, 1), LAMBDA n : Strip(n) # <<>>),
         LAMBDA names :
        [i \in 1..Len(names) |-> NewAccused(Strip(names[i]))]))

\* seq[k] if the list is that long, the default otherwise
AtOr(seq, k, default) == IF Len(seq) >= k THEN seq[k] ELSE default

_extract_occurrence(ocr_data, full_text) ==
    With(FindAllDates(full_text, 1), LAMBDA dates :
    With(FindAllTimes(full_text, 1), LAMBDA times :
        [Day |-> StrippedOr(Span(full_text, <<<<W("Day")>>>>, <<W("Date")>>,
                                 TRUE), 2, 20),
         DateFrom |-> AtOr(dates, 1, <<>>),
         DateTo |-> AtOr(dates, 2, <<>>),
         TimePeriod |->
             StrippedOr(Span(full_text, <<<<W("Time")>>, <<W("Period")>>>>,
                             <<W("Time")>>, TRUE), 1, 50),
         TimeFrom |-> AtOr(times, 1, <<>>),
         TimeTo |-> AtOr(times, 2, <<>>)]))

\* re.findall(r'(?:Section|BNS).*?(\d+)', full_text, re.IGNORECASE)
RECURSIVE SectionMatches(_, _)
SectionMatches(t, from) ==
    With(ChainEnd(t, from, <<<<W("Section"), W("BNS")>>>>, TRUE), LAMBDA l :
    With(IF l = 0 THEN {} ELSE {p \in l..Len(t) : IsDigit(t[p])}, LAMBDA hit :
        IF from > Len(t) \/ hit = {} THEN <<>>
        ELSE With(DigitRunEnd(t, Min(hit)), LAMBDA end :
                 <<SubSeq(t, Min(hit), end - 1)>> \o SectionMatches(t, end))))

\* re.findall(r'\b(\d{2,3})\b', full_text): the runs of two or three digits
\* with no word character on either side, left to right
StandaloneNumbers(t) ==
    With([p \in 1..Len(t) |-> DigitRunEnd(t, p)], LAMBDA end :
    With({p \in 1..Len(t) :
             /\ IsDigit(t[p])
             /\ (p = 1 \/ ~IsWord(t[p - 1]))
             /\ end[p] - p \in {2, 3}
             /\ (end[p] = Len(t) + 1 \/ ~IsWord(t[end[p]]))}, LAMBDA starts :
        [k \in 1..Cardinality(starts) |->
            With(NthOf(starts, k), LAMBDA p : SubSeq(t, p, end[p] - 1))]))

ActSection(section) == [Act |-> ActBNS, Section |-> section]

\* The fallback loop without its `break`: every plausible number is taken.
_extract_acts_sections_unbroken(ocr_data, full_text) ==
    With(SectionMatches(full_text, 1), LAMBDA section_matches :
        IF section_matches # <<>>
        THEN [i \in 1..Len(section_matches) |->
                 ActSection(Strip(section_matches[i]))]
        ELSE With(StandaloneNumbers(full_text), LAMBDA potential_sections :
             With(SelectSeq(potential_sections, LAMBDA num :
                      100 <= ParseInt(num) /\ ParseInt(num) <= 511),
                  LAMBDA plausible :
                 [i \in 1..Len(plausible) |-> ActSection(plausible[i])])))

_extract_acts_sections(ocr_data, full_text) ==
    With(SectionMatches(full_text, 1), LAMBDA section_matches :
        IF section_matches # <<>>
        THEN [i \in 1..Len(section_matches) |->
                 ActSection(Strip(section_matches[i]))]
        ELSE With(StandaloneNumbers(full_text), LAMBDA potential_sections :
             With({i \in 1..Len(potential_sections) :
                      With(ParseInt(potential_sections[i]), LAMBDA section_num :
                          100 <= section_num /\ section_num <= 511)},
                  LAMBDA plausible :
                 IF plausible = {} THEN <<>>
                 ELSE <<ActSection(potential_sections[Min(plausible)])>>)))

_extract_place(ocr_data, full_text) ==
    [DirectionDistanceFromPS |->
        [Direction |->
             StrippedOr(Span(full_text, <<<<W("Direction")>>>>,
                             <<W("Distance"), W("Beat")>>, TRUE), 2, 100),
         Distance |->
             StrippedOr(Span(full_text, <<<<W("Distance")>>>>,
                             <<W("Beat"), W("Address")>>, TRUE), 1, 50)],
     BeatNo |-> StrippedOr(Span(full_text, <<<<W("Beat")>>>>,
                                <<W("Address")>>, TRUE), 0, 20),
     Address |-> StrippedOr(Span(full_text, <<<<W("Address")>>>>,
                                 <<W("District"), W("State")>>, TRUE), 5, 200),
     DistrictState |-> <<>>]

_extract_action_taken(ocr_data, full_text) ==
    [RegisteredCaseInvestigation |->
        [OfficerName |->
             StrippedOr(Span(full_text, <<<<W("Officer"), W("Name")>>>>,
                             <<W("Rank")>>, TRUE), 2, 100),
         Rank |-> StrippedOr(Span(full_text, <<<<W("Rank")>>>>, <<W("No")>>,
                                  TRUE), 2, 50),
         No |-> StrippedOr(Span(full_text, <<<<W("No")>>>>, <<>>, TRUE),
                           0, 20)],
     DirectedNameOfIO |-> <<>>, DirectedRank |-> <<>>,
     DirectedNo |-> <<>>, RefusedInvestigationDueTo |-> <<>>,
     TransferredPS |-> <<>>, TransferredDistrict |-> <<>>,
     ROAC |-> <<>>]

_extract_first_information(ocr_data, full_text) ==
    With(SpanFrom(full_text, 1,
                  <<<<<<Str("First"), Str("Information"), Str("Contents")>>,
                      <<HiPratham, HiKhabar, HiAntargat>>>>>>,
                  <<<<Str("Action"), Str("Taken")>>>>, FALSE, TRUE),
         LAMBDA content_match :
        IF content_match.found THEN Strip(content_match.group) ELSE <<>>)

(***************************************************************************)
(* FIRExtractionService.extract_fields                                     *)
(***************************************************************************)
\* The record extract_fields starts from.  '' and [] are both the empty
\* sequence.
Skeleton ==
    [FIR |->
        [District |-> <<>>, PoliceStation |-> <<>>, Year |-> 0,
         FIRNo |-> <<>>, DateTimeOfFIR |-> <<>>, ActsSections |-> <<>>,
         OccurrenceOfOffence |->
            [Day |-> <<>>, DateFrom |-> <<>>, DateTo |-> <<>>,
             TimePeriod |-> <<>>, TimeFrom |-> <<>>, TimeTo |-> <<>>],
         InfoReceivedAtPS |-> [Date |-> <<>>, Time |-> <<>>],
         GeneralDiaryReference |-> [EntryNo |-> <<>>, DateTime |-> <<>>],
         TypeOfInformation |-> <<>>,
         PlaceOfOccurrence |->
            [DirectionDistanceFromPS |->
                [Direction |-> <<>>, Distance |-> <<>>],
             BeatNo |-> <<>>, Address |-> <<>>, DistrictState |-> <<>>]],
     ComplainantInformant |->
        [Name |-> <<>>, FatherOrHusbandName |-> <<>>,
         DOB_YearOfBirth |-> <<>>, Nationality |-> Bharat, UIDNo |-> <<>>,
         PassportNo |-> <<>>, IDDetails |-> <<>>, Occupation |-> <<>>,
         Addresses |-> <<>>, PhoneNumber |-> <<>>],
     AccusedDetails |-> <<>>,
     PropertyOfInterest |-> <<>>,
     TotalValueOfPropertyInRs |-> <<>>,
     Inquest_UDB_CaseNo |-> <<>>,
     FirstInformationContents |-> <<>>,
     ActionTaken |->
        [RegisteredCaseInvestigation |->
            [OfficerName |-> <<>>, Rank |-> <<>>, No |-> <<>>],
         DirectedNameOfIO |-> <<>>, DirectedRank |-> <<>>,
         DirectedNo |-> <<>>, RefusedInvestigationDueTo |-> <<>>,
         TransferredPS |-> <<>>, TransferredDistrict |-> <<>>,
         ROAC |-> <<>>],
     ComplainantSignature |-> [Name |-> <<>>, Rank |-> <<>>, No |-> <<>>],
     DateTimeOfDispatchToCourt |-> <<>>,
     AccusedPhysicalDetails |-> <<>>]

\* The statements of the try block, in order, by the routine each calls.
Groups ==
    <<"_extract_fir_info", "_extract_complainant", "_extract_accused",
      "_extract_occurrence", "_extract_acts_sections", "_extract_place",
      "_extract_action_taken", "_extract_first_information">>

\* The k-th statement of the try block applied to the record.
ApplyGroup(rec, k, cleaned_ocr, full_text) ==
    CASE k = 1 ->
           [rec EXCEPT !.FIR = Update(@, _extract_fir_info(cleaned_ocr,
                                                           full_text))]
      [] k = 2 ->
           [rec EXCEPT !.ComplainantInformant =
                           Update(@, _extract_complainant(cleaned_ocr,
                                                          full_text))]
      [] k = 3 ->
           [rec EXCEPT !.AccusedDetails = _extract_accused(cleaned_ocr)]
      [] k = 4 ->
           [rec EXCEPT !.FIR.OccurrenceOfOffence =
                           _extract_occurrence(cleaned_ocr, full_text)]
      [] k = 5 ->
           [rec EXCEPT !.FIR.ActsSections =
                           _extract_acts_sections(cleaned_ocr, full_text)]
      [] k = 6 ->
           [rec EXCEPT !.FIR.PlaceOfOccurrence =
                           _extract_place(cleaned_ocr, full_text)]
      [] k = 7 ->
           [rec EXCEPT !.ActionTaken =
                           _extract_action_taken(cleaned_ocr, full_text)]
      [] k = 8 ->
           [rec EXCEPT !.FirstInformationContents =
                           _extract_first_information(cleaned_ocr, full_text)]

\* The try block: the statements run in order; the first routine that
\* raises ends the block (the one except clause logs and falls through to
\* the return), so the statements after it do not run.  self.raising is the
\* set of routines that raise in this call.
RECURSIVE RunGroups(_, _, _, _, _)
RunGroups(self, rec, k, cleaned_ocr, full_text) ==
    IF k > Len(Groups) THEN rec
    ELSE IF Groups[k] \in self.raising THEN rec
    ELSE RunGroups(self, ApplyGroup(rec, k, cleaned_ocr, full_text), k + 1,
                   cleaned_ocr, full_text)

\* item.get('confidence', 0) > 0.3, in hundredths; the comparison of a
\* value that is no number with a float raises TypeError.
ConfidenceThreshold == 30

RECURSIVE FilterFrom(_, _)
FilterFrom(ocr_data, k) ==
    IF k > Len(ocr_data) THEN Ok(<<>>)
    ELSE With(GetConfidence(ocr_data[k]), LAMBDA c :
             IF c.type # "float" THEN Raise("TypeError")
             ELSE With(FilterFrom(ocr_data, k + 1), LAMBDA rest :
                      IF rest.raised THEN rest
                      ELSE IF c.v > ConfidenceThreshold
                           THEN Ok(<<ocr_data[k]>> \o rest.value)
                           ELSE rest))

extract_fields(self, ocr_data) ==
    With(FilterFrom(ocr_data, 1), LAMBDA filtered_ocr :
        IF filtered_ocr.raised THEN filtered_ocr
        ELSE With(_clean_ocr_text(filtered_ocr.value), LAMBDA cleaned_ocr :
            IF cleaned_ocr.raised THEN cleaned_ocr
            ELSE With(Join([i \in 1..Len(cleaned_ocr.value) |->
                               cleaned_ocr.value[i].text.v]),
                      LAMBDA full_text :
                     Ok(RunGroups(self, Skeleton, 1, cleaned_ocr.value,
                                  full_text)))))

(***************************************************************************)
(* FIRExtractionService.__init__ and the pattern table                     *)
(***************************************************************************)
\* self.patterns as the constructor writes it, before the improved
\* patterns are loaded.
BaselinePatterns ==
    "fir_no" :> (Str("FIR\\s*No\\.\\s*:\\s*(\\d{4})"))
    @@
    "date_time" :> (Str("Date\\s*and\\s*Time\\s*of\\s*FIR.*?:.*?(\\d{2}/\\d{2}/\\d{4})\\s*(\\d{2}:\\d{2})"))
    @@
    "district" :> (Str("District.*?:\\s*(.*?)(?:\\s*Year|\\s*$)"))
    @@
    "police_station" :> (Str("P\\.S\\..*?:\\s*(.*?)(?:\\s*Year|\\s*$)"))
    @@
    "year" :> (Str("Year.*?:\\s*(\\d{4})"))
    @@
    "mobile" :> (Str("(?:") \o <<"U+092E", "U+094B", "U+092C">> \o Str("\\.?") \o <<"U+0928", "U+0902">> \o Str("\\.?|Mobile|Phone).*?(\\d{10})"))
    @@
    "complainant_name" :> (Str("(?:Complainant|") \o <<"U+092B", "U+093F", "U+0930", "U+094D", "U+092F", "U+093E", "U+0926", "U+0940">> \o Str("|Informant).*?(?:Name|") \o <<"U+0928", "U+093E", "U+0935">> \o Str(").*?:(.*?)(?:Father|") \o <<"U+0935", "U+0921", "U+0940", "U+0932">> \o Str("|$)"))
    @@
    "father_name" :> (Str("(?:Father|") \o <<"U+0935", "U+0921", "U+0940", "U+0932">> \o Str(").*?(?:Name|") \o <<"U+0928", "U+093E", "U+0935">> \o Str(").*?:(.*?)(?:DOB|") \o <<"U+0935", "U+092F">> \o Str("|$)"))
    @@
    "dob" :> (Str("(?:DOB|Date.*Birth|") \o <<"U+0935", "U+092F">> \o Str(").*?(\\d{4})"))
    @@
    "address" :> (Str("(?:Address|") \o <<"U+092A", "U+0924", "U+094D", "U+0924", "U+093E">> \o Str(").*?:(.*?)(?:Phone|Mobile|$)"))
    @@
    "acts_sections" :> (Str("(?:") \o <<"U+092D", "U+093E", "U+0930", "U+0924", "U+0940", "U+092F">> \o Str(" ") \o <<"U+0928", "U+094D", "U+092F", "U+093E", "U+092F">> \o Str(" ") \o <<"U+0938", "U+0902", "U+0939", "U+093F", "U+0924", "U+093E">> \o Str("|Indian Penal Code|BNS).*?(\\d+)"))
    @@
    "day" :> (Str("Day.*?:\\s*(.*?)(?:\\s*Date|$)"))
    @@
    "time_period" :> (Str("Time\\s*Period.*?:\\s*(.*?)(?:\\s*Time|$)"))
    @@
    "direction" :> (Str("Direction.*?:\\s*(.*?)(?:\\s*Distance|$)"))
    @@
    "distance" :> (Str("Distance.*?:\\s*(.*?)(?:\\s*Beat|$)"))
    @@
    "officer_name" :> (Str("(?:Officer|") \o <<"U+0905", "U+0927", "U+093F", "U+0915", "U+093E", "U+0930", "U+0940">> \o Str(").*?(?:Name|") \o <<"U+0928", "U+093E", "U+0935">> \o Str(").*?:(.*?)(?:Rank|") \o <<"U+092A", "U+0926">> \o Str("|$)"))
    @@
    "rank" :> (Str("Rank.*?:\\s*(.*?)(?:\\s*No|$)"))
    @@
    "officer_no" :> (Str("No\\.\\s*:\\s*(.*?)(?:\\s*$)"))

\* A file of training_data/: what json.dump wrote.  A file that was opened
\* for writing and not written to its end is not complete; json.load
\* raises on it.
JsonDump(v) == [complete |-> TRUE, content |-> v]

Truncated == [complete |-> FALSE, content |-> <<>>]

JsonLoad(file) ==
    IF file.complete THEN Ok(file.content) ELSE Raise("JSONDecodeError")

PatternFile == "improved_patterns.json"

\* _load_improved_patterns: the table after the update, the table as it
\* was when the file is missing or cannot be loaded (the exception is
\* logged).
_load_improved_patterns(patterns, dir) ==
    IF PatternFile \notin DOMAIN dir THEN patterns
    ELSE LET improved_patterns == JsonLoad(dir[PatternFile])
         IN  IF improved_patterns.raised THEN patterns
             ELSE Update(patterns, improved_patterns.value)

\* FIRExtractionService(): the instance constructed while training_data/
\* holds `dir`.  No routine raises unless a call says so.
FIRExtractionService(dir) ==
    [patterns |-> _load_improved_patterns(BaselinePatterns, dir),
     raising |-> {}]

(***************************************************************************)
(* TrainingService                                                         *)
(***************************************************************************)
\* d.get(k, default)
Get(d, k, default) == IF k \in DOMAIN d THEN d[k] ELSE default

\* the truth value of a leaf of a ground truth
Truthy(v) ==
    CASE v.type = "str" -> v.v # <<>>
      [] v.type = "float" -> v.v # 0
      [] OTHER -> FALSE

\* re.escape(s): a backslash before every character that is special in a
\* pattern
SpecialChars == Range(Str("()[]{}?*+-|^$\\.&~# \t\n"))

RECURSIVE Flatten(_, _, _)
Flatten(parts, lo, hi) ==
    IF lo > hi THEN <<>>
    ELSE IF lo = hi THEN parts[lo]
    ELSE With((lo + hi) \div 2, LAMBDA mid :
             Flatten(parts, lo, mid) \o Flatten(parts, mid + 1, hi))

Escape(s) ==
    Flatten([i \in 1..Len(s) |->
                IF s[i] \in SpecialChars THEN <<"\\", s[i]>> ELSE <<s[i]>>],
            1, Len(s))

\* sep.join(parts)
RECURSIVE JoinWith(_, _)
JoinWith(parts, sep) ==
    IF parts = <<>> THEN <<>>
    ELSE IF Len(parts) = 1 THEN parts[1]
         ELSE parts[1] \o sep \o JoinWith(Tail(parts), sep)

\* seq[:n]
Take(seq, n) == SubSeq(seq, 1, IF Len(seq) < n THEN Len(seq) ELSE n)

\* sample.get('ground_truth', {}).get(group, {}).get(field, '')
TruthField(sample, group, field) ==
    Get(Get(Get(sample, "ground_truth", EmptyDict), group, EmptyDict),
        field, PyStr(<<>>))

\* The loop that collects one field over the samples: the values that are
\* truthy, in the order of the samples.
Collected(samples, group, field) ==
    LET all == [i \in 1..Len(samples) |->
                   TruthField(samples[i], group, field)]
    IN  SelectSeq(all, LAMBDA v : Truthy(v))

\* re.escape raises TypeError on a value that is no string.
EscapeAll(values) ==
    IF \E i \in 1..Len(values) : values[i].type # "str"
    THEN Raise("TypeError")
    ELSE Ok([i \in 1..Len(values) |-> Escape(values[i].v)])

MinSamples == 5

TopDistricts == 5

TopStations == 5

TopNames == 3

_analyze_training_samples(samples) ==
    LET fir_numbers == Collected(samples, "FIR", "FIRNo")
        districts == EscapeAll(Collected(samples, "FIR", "District"))
        ps_stations == EscapeAll(Collected(samples, "FIR", "PoliceStation"))
        names == EscapeAll(Collected(samples, "ComplainantInformant", "Name"))
    IN  IF districts.raised THEN districts
        ELSE IF ps_stations.raised THEN ps_stations
        ELSE IF names.raised THEN names
        ELSE Ok(
          Entry("fir_no", fir_numbers # <<>>,
                Str("FIR\\s*No\\.?\\s*:?\\s*(\\d{4})"))
          @@ Entry("district", districts.value # <<>>,
                   Str("(?:District|") \o HiJila \o Str(").*?:\\s*(")
                   \o JoinWith(Take(districts.value, TopDistricts), <<"|">>)
                   \o Str(")"))
          @@ Entry("police_station", ps_stations.value # <<>>,
                   Str("(?:P\\.S\\.|Police Station|") \o HiThane
                   \o Str(").*?:\\s*(")
                   \o JoinWith(Take(ps_stations.value, TopStations), <<"|">>)
                   \o Str(")"))
          @@ Entry("complainant_name", names.value # <<>>,
                   Str("(?:Name|") \o HiName \o Str(").*?:\\s*(")
                   \o JoinWith(Take(names.value, TopNames), <<"|">>)
                   \o Str("|\\w+(?:\\s+\\w+)*)")))

\* The file name without the file id: the samples share one file.
SharedSampleFile(file_id) == "sample_.json"

\* training_dir / f"sample_{file_id}.json"
SampleFile(file_id) == "sample_" \o file_id \o ".json"

\* The path names a file of training_data/ itself: a file_id with a path
\* separator names a file of a directory that does not exist, and open()
\* raises.
InTrainingDir(file_id) ==
    \A i \in 1..Len(file_id) : SubSeq(file_id, i, i) \notin {"/", "\\"}

\* training_dir.glob("sample_*.json")
IsSampleFile(name) ==
    /\ Len(name) >= 12
    /\ SubSeq(name, 1, 7) = "sample_"
    /\ SubSeq(name, Len(name) - 4, Len(name)) = ".json"

(***************************************************************************)
(* The documents the engine is run on                                      *)
(***************************************************************************)
DocEmpty ==
    <<>>

DocAccusedPlain ==
    <<[text |-> PyStr(Str("Accused")), confidence |-> PyFloat(90), bbox |-> PyList(<<>>)],
      [text |-> PyStr(Str("Name")), confidence |-> PyFloat(90), bbox |-> PyList(<<>>)],
      [text |-> PyStr(Str("Ramesh Kumar")), confidence |-> PyFloat(90), bbox |-> PyList(<<>>)]>>

DocAccusedColon ==
    <<[text |-> PyStr(Str("ACCUSED")), confidence |-> PyFloat(90), bbox |-> PyList(<<>>)],
      [text |-> PyStr(Str("Name :")), confidence |-> PyFloat(90), bbox |-> PyList(<<>>)],
      [text |-> PyStr(Str("Ramesh Kumar")), confidence |-> PyFloat(90), bbox |-> PyList(<<>>)]>>

DocAccusedHindi ==
    <<[text |-> PyStr(<<"U+0906", "U+0930", "U+094B", "U+092A", "U+0940">>), confidence |-> PyFloat(90), bbox |-> PyList(<<>>)],
      [text |-> PyStr(<<"U+0928", "U+093E", "U+0935", " ", ":", " ", "R", "a", "m", "e", "s", "h", " ", "K", "u", "m", "a", "r">>), confidence |-> PyFloat(90), bbox |-> PyList(<<>>)]>>

DocFir ==
    <<[text |-> PyStr(Str("FIR No. : 2021")), confidence |-> PyFloat(90), bbox |-> PyList(<<>>)],
      [text |-> PyStr(Str("District : Pune-City Year : 2021")), confidence |-> PyFloat(90), bbox |-> PyList(<<>>)]>>

DocFull ==
    <<[text |-> PyStr(Str("FIR No. 0123 Date 15/03/2021 14:30")), confidence |-> PyFloat(90), bbox |-> PyList(<<>>)],
      [text |-> PyStr(Str("Name : Ravi Das Father Name : Om Das DOB 1985")), confidence |-> PyFloat(90), bbox |-> PyList(<<>>)],
      [text |-> PyStr(Str("Phone 9876543210")), confidence |-> PyFloat(90), bbox |-> PyList(<<>>)],
      [text |-> PyStr(Str("Section 173")), confidence |-> PyFloat(90), bbox |-> PyList(<<>>)]>>

DocLowConf ==
    <<[text |-> PyStr(Str("FIR 2021")), confidence |-> PyFloat(20), bbox |-> PyList(<<>>)],
      [text |-> PyStr(Str("Oral")), confidence |-> PyFloat(30), bbox |-> PyList(<<>>)],
      [text |-> PyStr(Str("Written")), confidence |-> PyFloat(31), bbox |-> PyList(<<>>)]>>

DocNoText ==
    <<[confidence |-> PyFloat(90), bbox |-> PyList(<<>>)]>>

DocNoTextLow ==
    <<[confidence |-> PyFloat(10), bbox |-> PyList(<<>>)],
      [text |-> PyStr(Str("Oral")), confidence |-> PyFloat(90), bbox |-> PyList(<<>>)]>>

DocTextNotStr ==
    <<[text |-> PyNone, confidence |-> PyFloat(90), bbox |-> PyList(<<>>)]>>

DocConfNotNum ==
    <<[text |-> PyStr(Str("FIR 2021")), confidence |-> PyStr(Str("high")), bbox |-> PyList(<<>>)]>>

DocNoConf ==
    <<[text |-> PyStr(Str("FIR 2021"))]>>


\* The documents by name: a call names the document it is made on.
Docs ==
    [DocEmpty |-> DocEmpty, DocAccusedPlain |-> DocAccusedPlain,
     DocAccusedColon |-> DocAccusedColon, DocAccusedHindi |-> DocAccusedHindi,
     DocFir |-> DocFir, DocFull |-> DocFull, DocLowConf |-> DocLowConf,
     DocNoText |-> DocNoText, DocNoTextLow |-> DocNoTextLow,
     DocTextNotStr |-> DocTextNotStr, DocConfNotNum |-> DocConfNotNum,
     DocNoConf |-> DocNoConf]

DocNames == DOMAIN Docs

\* What OCRService.extract_text_from_image can put on a page: every
\* fragment carries a non-empty str text and a float confidence.
OcrDocNames ==
    {"DocAccusedPlain", "DocAccusedColon", "DocAccusedHindi", "DocFir",
     "DocFull", "DocLowConf"}

\* Fragments for the filter and the cleaning: texts that are too short
\* once trimmed, that lose characters or everything to the noise pattern,
\* that a correction rewrites ('HR' -> 'House', 'sear' -> 'Shri'), and
\* confidences at and on either side of the threshold; one fragment
\* carries neither confidence nor bbox.
NoisyFragments ==
    {[text |-> PyStr(Str(t)), confidence |-> PyFloat(c),
      bbox |-> PyList(<<>>)] :
        t \in {" a ", "ab", "a@", "@@", "x  y", "HRar"}, c \in {30, 31}}
    \cup {[text |-> PyStr(Str("ab")), confidence |-> PyFloat(20),
           bbox |-> PyList(<<>>)],
          [text |-> PyStr(Str("x  y"))]}

\* Fragments of numbers: years in and out of the range of FIR.Year, section
\* numbers in and out of the range of the fallback rule and one after its
\* label, digit runs of the lengths of a phone number and of a UID.
NumberFragments ==
    {[text |-> PyStr(Str(t)), confidence |-> PyFloat(90),
      bbox |-> PyList(<<>>)] :
        t \in {"1850", "2021", "2045", "Section 173", "99", "173", "302",
               "9876543210", "123456789012"}}

\* The sets of field-group routines that raise during one call: none, or
\* one of the eight.
RaisingSets == {{}} \cup {{Groups[k]} : k \in 1..Len(Groups)}

(***************************************************************************)
(* The training samples posted to /api/train/sample                        *)
(***************************************************************************)
OcrNone == EmptyDict

OcrFir == "1" :> DocFir

GtNone == EmptyDict

GtPune ==
    [FIR |-> [FIRNo |-> PyStr(Str("2021")),
              District |-> PyStr(Str("Pune-City")),
              PoliceStation |-> PyStr(Str("Kothrud"))],
     ComplainantInformant |-> [Name |-> PyStr(Str("Ravi Das"))]]

\* A corrected record whose District is a JSON number.
GtBadType == [FIR |-> [District |-> PyFloat(411)]]

SampleInputs ==
    {[ocr_data |-> OcrNone, corrected_data |-> GtNone],
     [ocr_data |-> OcrFir, corrected_data |-> GtPune],
     [ocr_data |-> OcrFir, corrected_data |-> GtBadType]}

\* Stored samples for the analysis: no ground truth, the ground truth
\* above, and one of another district, station and name.
AnalysisSamples ==
    {[file_id |-> "f1", ocr_data |-> OcrNone, ground_truth |-> gt] :
        gt \in {GtNone, GtPune,
                [FIR |-> [FIRNo |-> PyStr(Str("2022")),
                          District |-> PyStr(Str("Thane")),
                          PoliceStation |-> PyStr(Str("Wagle"))],
                 ComplainantInformant |->
                     [Name |-> PyStr(Str("Asha Rao"))]]}}

(***************************************************************************)
(* TrainingService: the operations on training_data/                       *)
(***************************************************************************)
\* The outcomes of `with path.open('w') as f: json.dump(value, f)`:
\* "none" writes the file; "open" is open() raising, the directory is as
\* it was; "write" is json.dump raising after open('w') has emptied the
\* file, which stays cut short.
WriteFaults == {"open", "write"}

WriteFile(dir, name, value, fault) ==
    CASE fault = "open" -> dir
      [] fault = "write" -> Update(dir, name :> Truncated)
      [] OTHER -> Update(dir, name :> JsonDump(value))

\* An open() of the file a file_id with a path separator names raises:
\* it names a file of a directory that does not exist.
save_training_sample(dir, file_id, ocr_data, corrected_data, fault) ==
    LET sample == [file_id |-> file_id, ocr_data |-> ocr_data,
                   ground_truth |-> corrected_data]
        sample_file == SampleFile(file_id)
    IN  IF ~InTrainingDir(file_id) THEN [dir |-> dir, returned |-> FALSE]
        ELSE [dir |-> WriteFile(dir, sample_file, sample, fault),
              returned |-> fault = "none"]

\* The file ids the clients post, and the one that is no file name.
FileIdPool == <<"f1", "f2", "f3", "f4", "f5", "f6", "f7">>

BadFileId == "x/y"

Reverse(s) == [i \in 1..Len(s) |-> s[Len(s) + 1 - i]]

\* The order in which glob() yields the entries of training_data/ is the
\* directory's: either of these two.
DirOrders ==
    LET names == [i \in 1..Len(FileIdPool) |-> SampleFile(FileIdPool[i])]
    IN  {names, Reverse(names)}

\* get_training_samples: the samples that load, in the order of the
\* directory; a file of `unreadable` (open() raises) or one that does not
\* parse is logged and left out.
get_training_samples(dir, order, unreadable) ==
    With(SelectSeq(order, LAMBDA n : n \in DOMAIN dir /\ IsSampleFile(n)),
         LAMBDA files :
    With(SelectSeq([i \in 1..Len(files) |->
                       IF files[i] \in unreadable THEN Raise("OSError")
                       ELSE JsonLoad(dir[files[i]])],
                   LAMBDA loaded : ~loaded.raised), LAMBDA samples :
        [i \in 1..Len(samples) |-> samples[i].value]))

\* _save_improved_patterns: the directory afterwards; the exception of a
\* failed write is logged and nothing is returned either way.
_save_improved_patterns(dir, patterns, fault) ==
    WriteFile(dir, PatternFile, patterns, fault)

\* retrain_model as it would be if it saved before counting the samples.
retrain_model_saving_first(dir, order, unreadable, fault) ==
    With(get_training_samples(dir, order, unreadable), LAMBDA samples :
        [dir |-> _save_improved_patterns(dir, EmptyDict, fault),
         returned |-> IF Len(samples) < MinSamples
                      THEN [status |-> "insufficient_data",
                            have |-> Len(samples)]
                      ELSE [status |-> "success",
                            samples_used |-> Len(samples)]])

\* retrain_model: the directory afterwards and the dict returned.  The
\* instance of line 64 is local to the call: the updated table is dropped
\* when the call returns.
retrain_model(dir, order, unreadable, fault) ==
    With(get_training_samples(dir, order, unreadable), LAMBDA samples :
        IF Len(samples) < MinSamples
        THEN [dir |-> dir,
              returned |-> [status |-> "insufficient_data",
                            have |-> Len(samples)]]
        ELSE With(_analyze_training_samples(samples),
                  LAMBDA improved_patterns :
            IF improved_patterns.raised
            THEN [dir |-> dir,
                  returned |-> [status |-> "error",
                                message |-> improved_patterns.value]]
            ELSE With(Update(FIRExtractionService(dir).patterns,
                             improved_patterns.value),
                      LAMBDA extraction_service_patterns :
                [dir |-> _save_improved_patterns(dir, improved_patterns.value,
                                                 fault),
                 returned |-> [status |-> "success",
                               samples_used |-> Len(samples)]])))

(***************************************************************************)
(* routes/upload.py                                                        *)
(***************************************************************************)
FileNames == {Str("fir.pdf"), Str("fir.png")}

\* file.filename.endswith('.pdf')
EndsWith(s, suffix) ==
    /\ Len(s) >= Len(suffix)
    /\ SubSeq(s, Len(s) - Len(suffix) + 1, Len(s)) = suffix

\* What ocr_service.extract_text_from_pdf does on the stored file: it
\* raises, or returns the fragments of each page (a PDF of no page, a
\* first page of no fragment, a first page holding a document).
OcrOutcomes ==
    {Raise("RuntimeError"), Ok(EmptyDict), Ok(1 :> <<>>)}
    \cup {Ok(1 :> Docs[d]) : d \in OcrDocNames}

\* The pattern tables an engine instance can hold: the baseline, and the
\* baseline updated with what one analysis of MinSamples samples wrote.
TrainedTables ==
    LET lists == [1..MinSamples -> {[ground_truth |-> s.corrected_data] :
                                        s \in SampleInputs}]
        analysed == {_analyze_training_samples(l) : l \in lists}
    IN  {BaselinePatterns}
        \cup {Update(BaselinePatterns, a.value) : a \in {r \in analysed : ~r.raised}}

\* extract_fields on the documents above, computed once for each engine
\* and document: the baseline engine with each set of raising routines on
\* every document, and every trained engine on the document it is
\* uploaded.  (f @@ <<>> makes TLC store the table instead of the rule.)
ExtractTable ==
    LET baseline == {[patterns |-> BaselinePatterns, raising |-> r] :
                        r \in RaisingSets} \X {Docs[d] : d \in DocNames}
        trained == {[patterns |-> t, raising |-> {}] : t \in TrainedTables}
                       \X {DocFir}
    IN  [c \in baseline \cup trained |-> extract_fields(c[1], c[2])]
        @@ EmptyDict

\* self.extract_fields(ocr_data), read from the table.
Extracted(self, ocr_data) == ExtractTable[<<self, ocr_data>>]

\* upload_and_extract: the status code and, for a 200, the body.  `stored`
\* is whether the copy into uploads/ went through.
upload_and_extract(self, filename, stored, ocr) ==
    IF ~EndsWith(filename, Str(".pdf")) THEN [status_code |-> 400]
    ELSE IF ~stored THEN [status_code |-> 500]
    ELSE With(IF ocr.raised THEN EmptyDict ELSE ocr.value, LAMBDA text_data :
         With(IF 1 \in DOMAIN text_data /\ text_data[1] # <<>>
              THEN Extracted(self, text_data[1])
              ELSE Ok(EmptyDict), LAMBDA extracted_data :
             IF extracted_data.raised THEN [status_code |-> 500]
             ELSE [status_code |-> 200, text_data |-> text_data,
                   extracted_fields |-> extracted_data.value]))

(***************************************************************************)
(* The running service                                                     *)
(*   training_dir    the files of training_data/, by name                  *)
(*   enginePatterns  self.patterns of the instance of routes/upload.py:11  *)
(*   resp            the last call: what it was made on, what it returned  *)
(*   saved           for each file_id of a save that returned True, the    *)
(*                   sample of the last one and whether there was one      *)
(*                   before it (history, not program state)                *)
(*   faults          the number of I/O failures so far                     *)
(*   writer          the save_training_sample call between its open('w')   *)
(*                   and the end of its `with` block, if any               *)
(***************************************************************************)
\* At most this many sample files where the model is retrained, where the
\* samples are overwritten and listed, and where a save and a listing
\* interleave; at most this many I/O failures.
MaxFiles == 5

\* At most this many fragments in a list that is normalized.
MaxFragments == 2

\* At most this many fragments in a list of numbers.
MaxNumbers == 2

\* At most this many samples in a list that is analysed.
MaxAnalysed == 4

StoreFiles == 2

MaxFaults == 1

ConcFiles == 2

\* At most this many sample files while the pattern file is rewritten.
RetrainFiles == 6

Idle == [busy |-> FALSE]

Init ==
    /\ training_dir = EmptyDict
    /\ enginePatterns = FIRExtractionService(EmptyDict).patterns
    /\ resp = [op |-> "none"]
    /\ saved = EmptyDict
    /\ faults = 0
    /\ writer = Idle

\* The file ids a client may post to a directory of at most `limit`
\* sample files: one that is stored, the next of the pool, or the one that
\* is no file name.  The ids are stored in the order of the pool.
StoredIds ==
    {i \in 1..Len(FileIdPool) : SampleFile(FileIdPool[i]) \in DOMAIN training_dir}

\* The next file id of the pool, while fewer than `limit` are stored.
FreshIds(limit) ==
    IF Cardinality(StoredIds) < limit /\ Cardinality(StoredIds) < Len(FileIdPool)
    THEN {FileIdPool[Cardinality(StoredIds) + 1]} ELSE {}

PostableIds(limit) ==
    {FileIdPool[i] : i \in StoredIds} \cup FreshIds(limit) \cup {BadFileId}

\* The failures one call may meet: none once MaxFaults have happened.
FaultsOf(kinds) == IF faults < MaxFaults THEN {"none"} \cup kinds ELSE {"none"}

UnreadableSets ==
    {{}} \cup (IF faults < MaxFaults
               THEN {{n} : n \in {m \in DOMAIN training_dir : IsSampleFile(m)}}
               ELSE {})

Count(failed) == IF failed THEN faults + 1 ELSE faults

\* `saved` after a save of `sample` has returned True.
Recorded(sample) ==
    Update(saved, sample.file_id :>
               [sample |-> sample,
                overwritten |-> sample.file_id \in DOMAIN saved])

\* POST /api/train/sample
SaveSample(file_id, input, fault) ==
    /\ writer = Idle
    /\ fault = "none" \/ InTrainingDir(file_id)
    /\ \E call \in {save_training_sample(training_dir, file_id, input.ocr_data,
                                         input.corrected_data, fault)} :
          /\ training_dir' = call.dir
          /\ saved' = IF call.returned
                      THEN Recorded([file_id |-> file_id,
                                     ocr_data |-> input.ocr_data,
                                     ground_truth |-> input.corrected_data])
                      ELSE saved
          /\ resp' = [op |-> "save", fault |-> fault,
                      returned |-> call.returned,
                      status_code |-> IF call.returned THEN 200 ELSE 500]
    /\ faults' = Count(fault # "none")
    /\ UNCHANGED <<enginePatterns, writer>>

\* GET /api/train/samples
ListSamples(order, unreadable) ==
    /\ resp' = [op |-> "list", unreadable |-> unreadable, status_code |-> 200,
                writing |-> writer, before |-> saved,
                samples |-> get_training_samples(training_dir, order, unreadable)]
    /\ faults' = Count(unreadable # {})
    /\ UNCHANGED <<training_dir, enginePatterns, saved, writer>>

\* POST /api/train/retrain
Retrain(order, unreadable, fault) ==
    /\ writer = Idle
    /\ fault = "none" \/ unreadable = {}
    /\ \E call \in {retrain_model(training_dir, order, unreadable, fault)} :
          /\ fault = "none" \/ call.returned.status = "success"
          /\ training_dir' = call.dir
          /\ resp' = [op |-> "retrain", unreadable |-> unreadable,
                      fault |-> fault,
                      stored |-> Cardinality({n \in DOMAIN training_dir :
                                                 IsSampleFile(n)}),
                      status_code |-> 200, returned |-> call.returned]
    /\ faults' = Count(unreadable # {} \/ fault # "none")
    /\ UNCHANGED <<enginePatterns, saved, writer>>

\* The server process starts again: routes/upload.py:11 runs, and the new
\* instance loads the pattern file that is there, whether or not a writer
\* is at work on training_data/.
Restart ==
    /\ enginePatterns' = FIRExtractionService(training_dir).patterns
    /\ resp' = [op |-> "restart"]
    /\ UNCHANGED <<training_dir, saved, faults, writer>>

\* POST /api/upload
Upload(filename, stored, ocr) ==
    /\ writer = Idle
    /\ resp' = [op |-> "upload", filename |-> filename, ocr |-> ocr,
                response |-> upload_and_extract(
                    [patterns |-> enginePatterns, raising |-> {}],
                    filename, stored, ocr)]
    /\ UNCHANGED <<training_dir, enginePatterns, saved, faults, writer>>

\* extract_fields called on document `d` while the routines of `raising`
\* raise.
ExtractCall(d, raising) ==
    /\ writer = Idle
    /\ resp' = [op |-> "extract", doc |-> d, raising |-> raising,
                result |-> Extracted([patterns |-> enginePatterns,
                                      raising |-> raising], Docs[d])]
    /\ UNCHANGED <<training_dir, enginePatterns, saved, faults, writer>>

\* Lines 37 and 38 of extract_fields on `ocr_data`, _clean_ocr_text on
\* what they gave, and _clean_ocr_text on `ocr_data` itself.
NormalizeCall ==
    /\ resp.op = "input"
    /\ resp.kind = "fragments"
    /\ \E cleaned \in {_clean_ocr_text(FilterFrom(resp.value, 1).value).value} :
          resp' = [op |-> "normalize", ocr_data |-> resp.value,
                   cleaned |-> cleaned,
                   again |-> _clean_ocr_text(cleaned).value,
                   direct |-> _clean_ocr_text(resp.value).value]
    /\ UNCHANGED <<training_dir, enginePatterns, saved, faults, writer>>

\* extract_fields on a list of fragments, with the full text of line 41.
ExtractNumbers ==
    /\ resp.op = "input"
    /\ resp.kind = "numbers"
    /\ \E cleaned_ocr \in {_clean_ocr_text(resp.value).value} :
          resp' = [op |-> "numbers", ocr_data |-> resp.value,
                   full_text |-> Join([i \in 1..Len(cleaned_ocr) |->
                                          cleaned_ocr[i].text.v]),
                   result |-> extract_fields([patterns |-> enginePatterns,
                                              raising |-> {}], resp.value)]
    /\ UNCHANGED <<training_dir, enginePatterns, saved, faults, writer>>

\* _analyze_training_samples on a list of samples.
AnalyzeCall ==
    /\ resp.op = "input"
    /\ resp.kind = "samples"
    /\ resp' = [op |-> "analyze", samples |-> resp.value,
                result |-> _analyze_training_samples(resp.value)]
    /\ UNCHANGED <<training_dir, enginePatterns, saved, faults, writer>>

\* save_training_sample, line 25: open('w') empties the file.
SaveOpen(file_id, input) ==
    /\ writer = Idle
    /\ training_dir' = WriteFile(training_dir, SampleFile(file_id), <<>>, "write")
    /\ writer' = [busy |-> TRUE,
                  sample |-> [file_id |-> file_id, ocr_data |-> input.ocr_data,
                              ground_truth |-> input.corrected_data]]
    /\ UNCHANGED <<enginePatterns, resp, saved, faults>>

\* save_training_sample, lines 26 to 29: json.dump writes the sample, the
\* `with` block closes the file, and the call returns True.
SaveWrite ==
    /\ writer # Idle
    /\ "sample" \in DOMAIN writer
    /\ training_dir' = WriteFile(training_dir, SampleFile(writer.sample.file_id),
                                 writer.sample, "none")
    /\ saved' = Recorded(writer.sample)
    /\ resp' = [op |-> "save", fault |-> "none", returned |-> TRUE,
                status_code |-> 200]
    /\ writer' = Idle
    /\ UNCHANGED <<enginePatterns, faults>>

\* retrain_model up to the open('w') of _save_improved_patterns, line 137,
\* in a call that goes on to save: the samples are analysed and the
\* pattern file is emptied.
RetrainOpen(order) ==
    /\ writer = Idle
    /\ \E call \in {retrain_model(training_dir, order, {}, "none")} :
          /\ call.returned.status = "success"
          /\ writer' = [busy |-> TRUE, before |-> training_dir, call |-> call]
    /\ training_dir' = _save_improved_patterns(training_dir, <<>>, "write")
    /\ UNCHANGED <<enginePatterns, resp, saved, faults>>

\* _save_improved_patterns, line 138, to the return of retrain_model:
\* json.dump writes the rules and the call returns 'success'.
RetrainWrite ==
    /\ writer # Idle
    /\ "call" \in DOMAIN writer
    /\ training_dir' = writer.call.dir
    /\ resp' = [op |-> "retrain", unreadable |-> {}, fault |-> "none",
                stored |-> Cardinality({n \in DOMAIN training_dir :
                                           IsSampleFile(n)}),
                status_code |-> 200, returned |-> writer.call.returned]
    /\ writer' = Idle
    /\ UNCHANGED <<enginePatterns, saved, faults>>

(***************************************************************************)
(* The specifications                                                      *)
(***************************************************************************)
\* Retraining: samples are posted under new file ids and listed, the model
\* is retrained, the server restarts, documents are uploaded.
Next ==
    \/ \E file_id \in FreshIds(MaxFiles) \cup {BadFileId},
          input \in SampleInputs, fault \in FaultsOf(WriteFaults) :
            SaveSample(file_id, input, fault)
    \/ \E order \in DirOrders, unreadable \in UnreadableSets :
            ListSamples(order, unreadable)
    \/ \E order \in DirOrders, unreadable \in UnreadableSets,
          fault \in FaultsOf(WriteFaults) :
            Retrain(order, unreadable, fault)
    \/ Restart
    \/ Upload(Str("fir.pdf"), TRUE, Ok(1 :> DocFir))

Spec == Init /\ [][Next]_vars

\* The sample store: samples are posted, under new file ids and stored
\* ones, and listed.
NextStore ==
    \/ \E file_id \in PostableIds(StoreFiles), input \in SampleInputs,
          fault \in FaultsOf(WriteFaults) :
            SaveSample(file_id, input, fault)
    \/ \E order \in DirOrders, unreadable \in UnreadableSets :
            ListSamples(order, unreadable)

SpecStore == Init /\ [][NextStore]_vars

\* The engine and the upload route on every document and every failure.
NextExtract ==
    \/ \E d \in DocNames, raising \in RaisingSets : ExtractCall(d, raising)
    \/ \E filename \in FileNames, stored \in BOOLEAN, ocr \in OcrOutcomes :
            Upload(filename, stored, ocr)

SpecExtract == Init /\ [][NextExtract]_vars

\* The functions of the engine and of the training service, one call each
\* on an input drawn from the sets above.
PureInputs ==
    {[op |-> "input", kind |-> "fragments", value |-> ocr_data] :
        ocr_data \in UNION {[1..n -> NoisyFragments] : n \in 0..MaxFragments}}
    \cup
    {[op |-> "input", kind |-> "numbers", value |-> ocr_data] :
        ocr_data \in UNION {[1..n -> NumberFragments] : n \in 0..MaxNumbers}}
    \cup
    {[op |-> "input", kind |-> "samples", value |-> samples] :
        samples \in UNION {[1..n -> AnalysisSamples] : n \in 0..MaxAnalysed}}

InitPure ==
    /\ resp \in PureInputs
    /\ training_dir = EmptyDict
    /\ enginePatterns = FIRExtractionService(EmptyDict).patterns
    /\ saved = EmptyDict
    /\ faults = 0
    /\ writer = Idle

NextPure ==
    \/ NormalizeCall
    \/ ExtractNumbers
    \/ AnalyzeCall

SpecPure == InitPure /\ [][NextPure]_vars

\* Samples are posted and the model is retrained: a call that does not
\* save is one step, a call that saves is the two steps around the write
\* of the pattern file; the server restarts at any moment.
NextRetrain ==
    \/ \E file_id \in FreshIds(RetrainFiles), gt \in {GtNone, GtPune} :
            SaveSample(file_id, [ocr_data |-> OcrNone, corrected_data |-> gt],
                       "none")
    \/ \E order \in DirOrders :
            /\ Cardinality(StoredIds) < MinSamples
            /\ Retrain(order, {}, "none")
    \/ \E order \in DirOrders : RetrainOpen(order)
    \/ RetrainWrite
    \/ Restart

SpecRetrain == Init /\ [][NextRetrain]_vars

\* A save in two steps, and listings between them.
NextConc ==
    \/ \E file_id \in PostableIds(ConcFiles) \ {BadFileId},
          input \in SampleInputs :
            SaveOpen(file_id, input)
    \/ SaveWrite
    \/ \E order \in DirOrders : ListSamples(order, {})

SpecConc == Init /\ [][NextConc]_vars

(***************************************************************************)
(* The extraction engine: C1, C2, C3, C10 and the upload route: C9,        *)
(* under SpecExtract                                                       *)
(***************************************************************************)
\* The paths of the record declaration that lead to a nested dict.
DictPaths ==
    {<<"FIR">>, <<"FIR", "OccurrenceOfOffence">>,
     <<"FIR", "InfoReceivedAtPS">>, <<"FIR", "GeneralDiaryReference">>,
     <<"FIR", "PlaceOfOccurrence">>,
     <<"FIR", "PlaceOfOccurrence", "DirectionDistanceFromPS">>,
     <<"ComplainantInformant">>, <<"ActionTaken">>,
     <<"ActionTaken", "RegisteredCaseInvestigation">>,
     <<"ComplainantSignature">>}

\* `record` has the keys of `skeleton`, no more and no fewer, at `path` and
\* at every nested dict below it.
RECURSIVE WellKeyed(_, _, _)
WellKeyed(record, skeleton, path) ==
    /\ DOMAIN record = DOMAIN skeleton
    /\ \A k \in DOMAIN skeleton :
          Append(path, k) \in DictPaths
              => WellKeyed(record[k], skeleton[k], Append(path, k))

\* The last call was extract_fields and it returned a record.
ExtractReturned == resp.op = "extract" /\ ~resp.result.raised

GroupPart(record, group) ==
    CASE group = "_extract_fir_info" ->
           <<record.FIR.District, record.FIR.PoliceStation, record.FIR.Year,
             record.FIR.FIRNo, record.FIR.DateTimeOfFIR,
             record.FIR.TypeOfInformation>>
      [] group = "_extract_complainant" -> <<record.ComplainantInformant>>
      [] group = "_extract_accused" -> <<record.AccusedDetails>>
      [] group = "_extract_occurrence" -> <<record.FIR.OccurrenceOfOffence>>
      [] group = "_extract_acts_sections" -> <<record.FIR.ActsSections>>
      [] group = "_extract_place" -> <<record.FIR.PlaceOfOccurrence>>
      [] group = "_extract_action_taken" -> <<record.ActionTaken>>
      [] group = "_extract_first_information" ->
           <<record.FirstInformationContents>>

\* C2: when the routine of one field group raises, that group keeps its
\* defaults and every other group, those after it in the order included, is
\* populated as it is when no routine raises.
C2_GroupIsolation ==
    ExtractReturned
        => \A k \in 1..Len(Groups) :
              GroupPart(resp.result.value, Groups[k])
                  = GroupPart(IF Groups[k] \in resp.raising THEN Skeleton
                              ELSE Extracted([patterns |-> enginePatterns,
                                              raising |-> {}],
                                             Docs[resp.doc]).value,
                              Groups[k])

\* C3: extract_fields raises for no fragment list, well-formed or not.
C3_NeverRaises == resp.op = "extract" => ~resp.result.raised

\* C9: an upload that does not fail answers with the full FIR Record
\* skeleton under 'extracted_fields', also when page 1 has no fragments,
\* and an upload whose OCR stage raised answers with an error.
C9_UploadSkeleton ==
    resp.op = "upload"
        => /\ resp.ocr.raised => resp.response.status_code # 200
           /\ resp.response.status_code = 200
                 => WellKeyed(resp.response.extracted_fields, Skeleton, <<>>)

\* C10: the fragments 'Accused', 'Name', 'Ramesh Kumar' give exactly one
\* accused entry, with Name 'Ramesh Kumar'.
C10_AccusedEntry ==
    (resp.op = "extract" /\ resp.doc = "DocAccusedPlain" /\ resp.raising = {})
        => /\ ~resp.result.raised
           /\ Len(resp.result.value.AccusedDetails) = 1
           /\ resp.result.value.AccusedDetails[1].Name = Str("Ramesh Kumar")

(***************************************************************************)
(* Retraining: C4, C5, C6, under Spec                                      *)
(***************************************************************************)
\* The rules of the pattern file, none when it is missing or cut short.
PersistedRules ==
    IF PatternFile \in DOMAIN training_dir
       /\ training_dir[PatternFile].complete
    THEN training_dir[PatternFile].content ELSE EmptyDict

\* The last call was a retrain that met no I/O failure and returned
\* 'success'.
RetrainSucceeded ==
    /\ resp.op = "retrain"
    /\ resp.fault = "none"
    /\ resp.unreadable = {}
    /\ resp.returned.status = "success"

\* C4: after a retrain that returned 'success' the engine of the upload
\* route holds every refined rule, and an upload served by an engine that
\* holds refined rules extracts the labelled district with them, not as the
\* built-in rules do.
C4_EngineUsesRefinedRules ==
    /\ RetrainSucceeded
          => \A key \in DOMAIN PersistedRules :
                enginePatterns[key] = PersistedRules[key]
    /\ (resp.op = "upload" /\ "district" \in DOMAIN PersistedRules
           /\ enginePatterns["district"] = PersistedRules["district"])
          => resp.response.extracted_fields
                 # Extracted([patterns |-> BaselinePatterns, raising |-> {}],
                             DocFir).value

\* C5: with no I/O failure, retrain_model returns 'insufficient_data' when
\* fewer than five samples are stored and 'success' when five or more are,
\* whatever their ground truth holds; after 'success' the refined fir_no
\* rule is in the engine's patterns and the refined set is in the pattern
\* file.
C5_RetrainOutcome ==
    (resp.op = "retrain" /\ faults = 0)
        => /\ resp.stored < MinSamples
                 => resp.returned.status = "insufficient_data"
           /\ resp.stored >= MinSamples
                 => /\ resp.returned.status = "success"
                    /\ "fir_no" \in DOMAIN PersistedRules
                    /\ enginePatterns["fir_no"] = PersistedRules["fir_no"]

\* C6: a retrain whose pattern file could not be written does not return
\* 'success'; a listing or a retrain that could not read a stored sample
\* answers with an error; a save that could not write returns failure.
C6_FailuresReported ==
    /\ (resp.op = "retrain" /\ resp.fault # "none")
          => resp.returned.status # "success"
    /\ (resp.op = "retrain" /\ resp.unreadable # {})
          => resp.returned.status = "error"
    /\ (resp.op = "list" /\ resp.unreadable # {}) => resp.status_code # 200
    /\ (resp.op = "save" /\ resp.fault # "none") => ~resp.returned

(***************************************************************************)
(* The sample store: C7 under SpecStore, C8 under SpecConc                 *)
(***************************************************************************)
\* The records of a listing that carry file_id `id`.
Listed(id) ==
    {i \in 1..Len(resp.samples) : resp.samples[i].file_id = id}

\* C7: when no I/O failure has occurred, a listing holds exactly one record
\* for each file_id saved so far, and it is the sample of the latest save
\* under that file_id.
C7_LatestSaveListed ==
    (resp.op = "list" /\ faults = 0)
        => /\ Len(resp.samples) = Cardinality(DOMAIN resp.before)
           /\ \A id \in DOMAIN resp.before :
                 \E i \in Listed(id) :
                    resp.samples[i] = resp.before[id].sample

\* C7, witness: a listing of two file ids, one of them saved twice.
C7_Witness ==
    /\ resp.op = "list"
    /\ faults = 0
    /\ Cardinality(DOMAIN resp.before) >= 2
    /\ \E id \in DOMAIN resp.before : resp.before[id].overwritten

\* C8: a listing that runs while a save is between opening the file and
\* finishing the write finds, for every file_id saved before, the previous
\* complete record or the complete new one; it finds no partial record and
\* never finds that a saved file_id has no record.
C8_AtomicPublish ==
    resp.op = "list"
        => /\ \A i \in 1..Len(resp.samples) :
                 \/ /\ resp.samples[i].file_id \in DOMAIN resp.before
                    /\ resp.samples[i]
                           = resp.before[resp.samples[i].file_id].sample
                 \/ /\ resp.writing.busy
                    /\ resp.samples[i] = resp.writing.sample
           /\ \A id \in DOMAIN resp.before : Listed(id) # {}

(***************************************************************************)
(* Normalization: C11, C12, C17, under SpecPure                            *)
(***************************************************************************)
\* The fragment passes the three tests of the filter and the cleaning.
TakesPart(item) ==
    /\ "confidence" \in DOMAIN item
    /\ item.confidence.v > ConfidenceThreshold
    /\ Len(Strip(item.text.v)) >= 2
    /\ CleanText(Strip(item.text.v)) # <<>>

\* C11: the fragments that take part in extraction are those whose
\* confidence is above 0.3 (a missing one counts as 0), whose trimmed text
\* has two characters or more and whose cleaned text is not empty: as many
\* fragments are retained as pass the tests, none of confidence 0.3 or less
\* is among them, and every retained fragment has a non-empty text.
C11_FilterRule ==
    resp.op = "normalize"
        => /\ Len(resp.cleaned)
                 = Cardinality({i \in 1..Len(resp.ocr_data) :
                                   TakesPart(resp.ocr_data[i])})
           /\ \A j \in 1..Len(resp.cleaned) :
                 /\ resp.cleaned[j].text.v # <<>>
                 /\ resp.cleaned[j].confidence.v > ConfidenceThreshold

\* C11, witness: of two fragments with the same text the one of confidence
\* 0.3 was dropped and the one of confidence 0.31 retained.
C11_Witness ==
    /\ resp.op = "normalize"
    /\ Len(resp.ocr_data) = 2
    /\ resp.ocr_data[1].text = resp.ocr_data[2].text
    /\ GetConfidence(resp.ocr_data[1]) = PyFloat(30)
    /\ GetConfidence(resp.ocr_data[2]) = PyFloat(31)
    /\ Len(resp.cleaned) = 1

\* C12: cleaning the cleaned list again gives the same list.
C12_Idempotent == resp.op = "normalize" => resp.again = resp.cleaned

\* The output fragment is what the loop body makes of the input fragment:
\* the cleaned text, and the confidence and bbox of the input (0 and [] when
\* the input has none).
DerivedFrom(out, item) ==
    /\ out.text = PyStr(CleanText(Strip(item.text.v)))
    /\ out.confidence = GetConfidence(item)
    /\ out.bbox = GetBBox(item)

\* C17: the list _clean_ocr_text returns is made of one fragment for each
\* input fragment of a subset of the positions, in the order of the input,
\* each with the confidence and bbox of its input fragment; the empty list
\* gives the empty list.
C17_OrderPreserved ==
    resp.op = "normalize"
        => /\ \E kept \in SUBSET (1..Len(resp.ocr_data)) :
                 /\ Cardinality(kept) = Len(resp.direct)
                 /\ \A j \in 1..Len(resp.direct) :
                       DerivedFrom(resp.direct[j],
                                   resp.ocr_data[NthOf(kept, j)])
           /\ resp.ocr_data = <<>> => resp.direct = <<>>

\* C17, witness: of two fragments with different texts both survived.
C17_Witness ==
    /\ resp.op = "normalize"
    /\ Len(resp.ocr_data) = 2
    /\ Len(resp.direct) = 2
    /\ resp.direct[1].text # resp.direct[2].text
    /\ resp.direct[1].text = PyStr(Str("Housear"))

(***************************************************************************)
(* Numbers in the text: C13, C16, C19, under SpecPure                      *)
(***************************************************************************)
\* The positions of `t` where a run of digits starts, and the length of
\* the run that starts at p.
RunStarts(t) ==
    {p \in 1..Len(t) : IsDigit(t[p]) /\ (p = 1 \/ ~IsDigit(t[p - 1]))}

RunLength(t, p) == DigitRunEnd(t, p) - p

\* The year of the first run of four digits of `t` that lies between 2000
\* and 2030, 0 when there is none.
FirstYearInRange(t) ==
    With({p \in RunStarts(t) :
             /\ RunLength(t, p) = 4
             /\ ParseInt(SubSeq(t, p, p + 3)) \in 2000..2030}, LAMBDA hit :
        IF hit = {} THEN 0 ELSE ParseInt(SubSeq(t, Min(hit), Min(hit) + 3)))

\* C13: FIR.Year is the first four-digit run of the full text that lies in
\* [2000, 2030], whatever runs out of the range come before it, and 0 when
\* no run lies in the range.
C13_YearInRange ==
    resp.op = "numbers"
        => resp.result.value.FIR.Year = FirstYearInRange(resp.full_text)

\* The entries of the fallback rule on `t`: the first standalone number of
\* two or three digits between 100 and 511, if there is one.
FallbackEntries(t) ==
    With(SelectSeq(StandaloneNumbers(t), LAMBDA num :
             ParseInt(num) \in 100..511), LAMBDA plausible :
        IF plausible = <<>> THEN <<>> ELSE <<ActSection(plausible[1])>>)

\* C16: when a number follows a 'Section' or 'BNS' token every entry of
\* ActsSections comes from those numbers; otherwise ActsSections is what
\* the fallback rule gives: at most one entry, the first standalone number
\* of two or three digits that lies in [100, 511].
C16_FallbackRule ==
    resp.op = "numbers"
        => With(resp.result.value.FIR.ActsSections, LAMBDA acts :
               IF SectionMatches(resp.full_text, 1) # <<>>
               THEN /\ Len(acts) = Len(SectionMatches(resp.full_text, 1))
                    /\ \A i \in 1..Len(acts) :
                          acts[i].Section
                              = SectionMatches(resp.full_text, 1)[i]
               ELSE /\ acts = FallbackEntries(resp.full_text)
                    /\ Len(acts) <= 1
                    /\ \A i \in 1..Len(acts) :
                          ParseInt(acts[i].Section) \in 100..511)

\* C16, witness: no label in the text and two numbers in the range: the
\* first of the two is the one entry.
C16_Witness ==
    /\ resp.op = "numbers"
    /\ resp.full_text = Str("302 173")
    /\ Len(resp.result.value.FIR.ActsSections) = 1
    /\ resp.result.value.FIR.ActsSections[1].Section = Str("302")

\* C19: a record with a UIDNo has a PhoneNumber, and when the first run of
\* ten digits or more has twelve or more, PhoneNumber is the first ten
\* digits of UIDNo.
C19_UidImpliesPhone ==
    resp.op = "numbers"
        => With(resp.result.value.ComplainantInformant, LAMBDA complainant :
               /\ complainant.UIDNo # <<>> => complainant.PhoneNumber # <<>>
               /\ With({p \in RunStarts(resp.full_text) :
                           RunLength(resp.full_text, p) >= 10}, LAMBDA long :
                      (long # {} /\ RunLength(resp.full_text, Min(long)) >= 12)
                          => /\ complainant.UIDNo # <<>>
                             /\ complainant.PhoneNumber
                                    = SubSeq(complainant.UIDNo, 1, 10)))

\* C19, witness: a text whose first long run has twelve digits, with a run
\* of ten digits after it.
C19_Witness ==
    /\ resp.op = "numbers"
    /\ resp.full_text = Str("123456789012 9876543210")
    /\ resp.result.value.ComplainantInformant.UIDNo = Str("123456789012")
    /\ resp.result.value.ComplainantInformant.PhoneNumber = Str("1234567890")

(***************************************************************************)
(* The analysis of the samples: C15, under SpecPure                        *)
(***************************************************************************)
\* The elements of a sequence, each once, in the order of their first
\* occurrence.
Distinct(seq) ==
    With({i \in 1..Len(seq) : \A j \in 1..(i - 1) : seq[j] # seq[i]},
         LAMBDA first :
        [k \in 1..Cardinality(first) |-> seq[NthOf(first, k)]])

\* The alternation of the first n distinct values of a field, escaped.
Alternation(samples, group, field, n) ==
    JoinWith(Take(Distinct(EscapeAll(Collected(samples, group, field)).value),
                  n), <<"|">>)

\* C15: the alternation of each refined pattern is made of the distinct
\* non-empty ground-truth values of the samples, escaped, each once, the
\* first five for district and police station and the first three for the
\* complainant name.
C15_DistinctValues ==
    (resp.op = "analyze" /\ ~resp.result.raised)
        => /\ "district" \in DOMAIN resp.result.value
                 => resp.result.value.district
                        = Str("(?:District|") \o HiJila \o Str(").*?:\\s*(")
                          \o Alternation(resp.samples, "FIR", "District",
                                         TopDistricts)
                          \o Str(")")
           /\ "police_station" \in DOMAIN resp.result.value
                 => resp.result.value.police_station
                        = Str("(?:P\\.S\\.|Police Station|") \o HiThane
                          \o Str(").*?:\\s*(")
                          \o Alternation(resp.samples, "FIR", "PoliceStation",
                                         TopStations)
                          \o Str(")")
           /\ "complainant_name" \in DOMAIN resp.result.value
                 => resp.result.value.complainant_name
                        = Str("(?:Name|") \o HiName \o Str(").*?:\\s*(")
                          \o Alternation(resp.samples, "ComplainantInformant",
                                         "Name", TopNames)
                          \o Str("|\\w+(?:\\s+\\w+)*)")

(***************************************************************************)
(* The pattern file while it is rewritten: C14, under SpecRetrain          *)
(***************************************************************************)
\* The rules of the pattern file of a directory, none when it is missing
\* or cut short.
RulesIn(dir) ==
    IF PatternFile \in DOMAIN dir /\ dir[PatternFile].complete
    THEN dir[PatternFile].content ELSE EmptyDict

\* C14: an engine constructed while retrain_model rewrites the pattern
\* file holds the baseline merged with the complete previous rule set or
\* with the complete new one; one constructed at any other moment holds
\* the baseline merged with the rule set of the file.
C14_NeverHalfDone ==
    resp.op = "restart"
        => IF writer.busy
           THEN enginePatterns
                    \in {Update(BaselinePatterns, RulesIn(writer.before)),
                         Update(BaselinePatterns, RulesIn(writer.call.dir))}
           ELSE enginePatterns = Update(BaselinePatterns, PersistedRules)

====
